---- MODULE Spec2Model ----
(***************************************************************************)
(* A model of django-voting's trunk/models.py: the Vote table with its     *)
(* unique_together constraint, VoteManager.record_vote run by concurrent   *)
(* callers, and the read-side queries of VoteManager.                      *)
(*                                                                         *)
(* The database is the relational store behind Django's ORM.  Each SQL     *)
(* statement the code issues (the SELECT of Manager.get, the DELETE of     *)
(* Model.delete, the SELECT COUNT and then the UPDATE or INSERT of         *)
(* Model.save, the INSERT of Manager.create) is one atomic step;           *)
(* record_vote opens no transaction, so the statements of concurrent calls *)
(* interleave freely.  The table's primary key is an integer key without   *)
(* AUTOINCREMENT: a new row gets the largest id in the table plus one, so  *)
(* the id of a deleted row can be handed out again.                        *)
(***************************************************************************)
EXTENDS Integers, Sequences, FiniteSets, TLC

\* ------------------------------------------------------------------ bounds

\* Number of concurrently running request handlers.
NumProcs == 2
\* Largest primary key the store hands out.
MaxId == 2
\* Largest object id of a target.
MaxObjId == 2
\* Vote values submitted range over -MaxVote..MaxVote (the valid ones and others).
MaxVote == 2
\* Most rows in a table the queries are run on.
MaxRows == 2
\* Longest target list handed to a bulk operation.
MaxLen == 2
\* Largest limit asked of get_top / get_bottom.
MaxLimit == 2

Procs == 1..NumProcs
Users == {1, 2}
Kinds == {1, 2}
ObjIds == 1..MaxObjId
VoteInputs == (0 - MaxVote)..MaxVote

\* A target object: its content type (kind) and its id.
Obj(kind, id) == [kind |-> kind, id |-> id]
Objects == {Obj(k, i) : k \in Kinds, i \in ObjIds}
\* The target the concurrent callers vote on (one row key per user).
Targets == {Obj(1, 1)}

VARIABLES
    store,      \* the rows of the votes table
    pc,         \* per caller: "idle", or where its record_vote call stands
    req,        \* per caller: the arguments of its running record_vote call
    v,          \* per caller: the Vote instance its lookup fetched
    last        \* the most recent operation that returned, and what it returned

vars == <<store, pc, req, v, last>>

\* ------------------------------------------------------------- Vote model

\* class Vote: one row of the table.
Vote(id, user, content_type, object_id, vote) ==
    [id |-> id, user |-> user, content_type |-> content_type,
     object_id |-> object_id, vote |-> vote]

NoVote == Vote(0, 0, 0, 0, 0)
NoReq == [user |-> 0, obj |-> Obj(0, 0), vote |-> 0]
NoOp == [op |-> "none"]

SameKey(r1, r2) ==
    /\ r1.user = r2.user
    /\ r1.content_type = r2.content_type
    /\ r1.object_id = r2.object_id

\* Meta.unique_together: the table's UNIQUE (user, content_type, object_id)
\* constraint, checked by the database on every INSERT.
UniqueTogetherOff(rows, row) == TRUE
UniqueTogether(rows, row) == \A r \in rows : ~SameKey(r, row)

\* vote not in (+1, 0, -1)
IsValidVoteAny(vote) == TRUE
IsValidVote(vote) == vote \in {1, 0, -1}

\* self.get(user=user, content_type=ctype, object_id=obj.id): the matching rows.
GetRows(rows, user, obj) ==
    {r \in rows : r.user = user /\ r.content_type = obj.kind /\ r.object_id = obj.id}

\* except Vote.DoesNotExist: if vote != 0: create
NeedsCreateAlways(vote) == TRUE
NeedsCreate(vote) == vote # 0

\* v.delete(): DELETE FROM votes WHERE id = v.id
DeleteKeep(rows, inst) == rows
Delete(rows, inst) == {r \in rows : r.id # inst.id}

\* v.save(), first statement: SELECT COUNT(*) FROM votes WHERE id = v.id
RecordExists(rows, inst) == \E r \in rows : r.id = inst.id

\* v.save(), record found: UPDATE votes SET user_id, content_type_id,
\* object_id, vote WHERE id = v.id.  It changes no row when the id is gone,
\* and is turned away when another row already has the instance's key.
Update(rows, inst) ==
    LET others == {r \in rows : r.id # inst.id} IN
    IF ~RecordExists(rows, inst) THEN [ok |-> TRUE, rows |-> rows]
    ELSE IF UniqueTogether(others, inst)
    THEN [ok |-> TRUE, rows |-> others \cup {inst}]
    ELSE [ok |-> FALSE, rows |-> rows]

\* INSERT of a row with its id: turned away when the id or the key is taken.
Insert(rows, inst) ==
    IF ~RecordExists(rows, inst) /\ UniqueTogether(rows, inst)
    THEN [ok |-> TRUE, rows |-> rows \cup {inst}]
    ELSE [ok |-> FALSE, rows |-> rows]

\* The id the table gives a row inserted without one: the largest id plus one.
MaxOf(ids) == IF ids = {} THEN 0 ELSE CHOOSE i \in ids : \A j \in ids : j <= i
NewId(rows) == MaxOf({r.id : r \in rows}) + 1

\* self.create(user=, content_type=, object_id=, vote=): INSERT a new row.
Create(rows, user, obj, vote) ==
    Insert(rows, Vote(NewId(rows), user, obj.kind, obj.id, vote))

\* What a record_vote call returned to its caller.
Returned(p, args, ret) ==
    [op |-> "record_vote", args |-> args, ret |-> ret]

\* -------------------------------------------------------------- record_vote

Init ==
    /\ store = {}
    /\ pc = [p \in Procs |-> "idle"]
    /\ req = [p \in Procs |-> NoReq]
    /\ v = [p \in Procs |-> NoVote]
    /\ last = NoOp

\* `last` is the observer's note of the operation that has just returned.  The
\* observer reads it and clears it before the next step is taken.
Observed == last = NoOp

TakeAnswer ==
    /\ last # NoOp
    /\ last' = NoOp
    /\ UNCHANGED <<store, pc, req, v>>

\* record_vote up to and including its lookup: the value check, then self.get.
\* A call with an invalid value, and a retraction that finds no record, return
\* here; the others go on to their write, a re-vote with v.vote = vote
\* already set on the instance it fetched.
Call(p, user, obj, vote) ==
    LET args == [user |-> user, obj |-> obj, vote |-> vote]
        found == GetRows(store, user, obj)
    IN
    /\ Observed
    /\ pc[p] = "idle"
    /\ IF ~IsValidVote(vote)
       THEN /\ last' = Returned(p, args, "ValueError")
            /\ UNCHANGED <<store, pc, req, v>>
       ELSE IF Cardinality(found) > 1
       THEN /\ last' = Returned(p, args, "MultipleObjectsReturned")
            /\ UNCHANGED <<store, pc, req, v>>
       ELSE IF found = {} /\ ~NeedsCreate(vote)
       THEN /\ last' = Returned(p, args, "ok")
            /\ UNCHANGED <<store, pc, req, v>>
       ELSE IF found = {}
       THEN /\ pc' = [pc EXCEPT ![p] = "missing"]
            /\ req' = [req EXCEPT ![p] = args]
            /\ last' = NoOp
            /\ UNCHANGED <<store, v>>
       ELSE /\ pc' = [pc EXCEPT ![p] = "found"]
            /\ req' = [req EXCEPT ![p] = args]
            /\ LET r == CHOOSE x \in found : TRUE IN
               v' = [v EXCEPT ![p] = IF vote = 0 THEN r ELSE [r EXCEPT !.vote = vote]]
            /\ last' = NoOp
            /\ UNCHANGED store

Finish(p, ret) ==
    /\ pc' = [pc EXCEPT ![p] = "idle"]
    /\ req' = [req EXCEPT ![p] = NoReq]
    /\ v' = [v EXCEPT ![p] = NoVote]
    /\ last' = Returned(p, req[p], ret)

\* if vote == 0: v.delete()
DeleteStep(p) ==
    /\ Observed
    /\ pc[p] = "found"
    /\ req[p].vote = 0
    /\ store' = Delete(store, v[p])
    /\ Finish(p, "ok")

\* else: v.save(): save's SELECT COUNT(*) decides between UPDATE and INSERT.
SaveSelectStep(p) ==
    /\ Observed
    /\ pc[p] = "found"
    /\ req[p].vote # 0
    /\ pc' = [pc EXCEPT ![p] = IF RecordExists(store, v[p]) THEN "update" ELSE "insert"]
    /\ UNCHANGED <<store, req, v, last>>

\* v.save(), the record was there: the UPDATE.
UpdateStep(p) ==
    /\ Observed
    /\ pc[p] = "update"
    /\ LET res == Update(store, v[p]) IN
       /\ store' = res.rows
       /\ Finish(p, IF res.ok THEN "ok" ELSE "IntegrityError")

\* v.save(), the record was gone: the INSERT of the instance under its id.
InsertStep(p) ==
    /\ Observed
    /\ pc[p] = "insert"
    /\ LET res == Insert(store, v[p]) IN
       /\ store' = res.rows
       /\ Finish(p, IF res.ok THEN "ok" ELSE "IntegrityError")

\* except Vote.DoesNotExist: self.create(...).  The store hands out primary
\* keys up to MaxId: an INSERT that would take a larger one is not run, one
\* that is turned away takes none.
CreateStep(p) ==
    /\ Observed
    /\ pc[p] = "missing"
    /\ LET res == Create(store, req[p].user, req[p].obj, req[p].vote) IN
       /\ res.ok => NewId(store) <= MaxId
       /\ store' = res.rows
       /\ Finish(p, IF res.ok THEN "ok" ELSE "IntegrityError")

Next ==
    \/ \E p \in Procs, user \in Users, obj \in Targets, vote \in VoteInputs :
          Call(p, user, obj, vote)
    \/ \E p \in Procs : DeleteStep(p)
    \/ \E p \in Procs : SaveSelectStep(p)
    \/ \E p \in Procs : UpdateStep(p)
    \/ \E p \in Procs : InsertStep(p)
    \/ \E p \in Procs : CreateStep(p)
    \/ TakeAnswer

Spec == Init /\ [][Next]_vars

\* Calls made one after another: a call starts only when no other is running.
\* The record a lookup found is then still there when save looks for it, so
\* save always takes its UPDATE.
AllIdle == \A p \in Procs : pc[p] = "idle"

SeqNext ==
    \/ \E p \in Procs, user \in Users, obj \in Targets, vote \in VoteInputs :
          AllIdle /\ Call(p, user, obj, vote)
    \/ \E p \in Procs : DeleteStep(p)
    \/ \E p \in Procs : SaveSelectStep(p)
    \/ \E p \in Procs : UpdateStep(p)
    \/ \E p \in Procs : CreateStep(p)
    \/ TakeAnswer

SeqSpec == Init /\ [][SeqNext]_vars

\* The vote race: every caller is the same user voting +1 or -1 on the same
\* target.  No call deletes, so save always finds its record and updates it.
RaceUser == CHOOSE u \in Users : TRUE
RaceTarget == CHOOSE t \in Targets : TRUE

RaceNext ==
    \/ \E p \in Procs, vote \in {1, -1} : Call(p, RaceUser, RaceTarget, vote)
    \/ \E p \in Procs : SaveSelectStep(p)
    \/ \E p \in Procs : UpdateStep(p)
    \/ \E p \in Procs : CreateStep(p)
    \/ TakeAnswer

RaceSpec == Init /\ [][RaceNext]_vars

\* ---------------------------------------------------------------- queries

\* A value a SQL aggregate returns: NULL, or an integer.
Null == [null |-> TRUE, val |-> 0]
Num(n) == [null |-> FALSE, val |-> n]

RECURSIVE SumOf(_)
SumOf(rows) ==
    IF rows = {} THEN 0
    ELSE LET r == CHOOSE x \in rows : TRUE IN r.vote + SumOf(rows \ {r})

\* SUM(vote): NULL over no rows.
SqlSum(rows) == IF rows = {} THEN Null ELSE Num(SumOf(rows))

\* result[0] or 0: Python's `or` replaces None, and 0, by 0.
OrZero(x) == IF x.null \/ x.val = 0 THEN 0 ELSE x.val

\* get_score's WHERE content_type_id = %s AND object_id = %s
ScoreWhereAnyKind(rows, ctype_id, object_id) ==
    {r \in rows : r.object_id = object_id}
ScoreWhere(rows, ctype_id, object_id) ==
    {r \in rows : r.content_type = ctype_id /\ r.object_id = object_id}

\* get_score(obj): SELECT SUM(vote), COUNT(*) ... ; the one result row.
GetScore(rows, obj) ==
    LET matched == ScoreWhere(rows, obj.kind, obj.id)
        result == <<SqlSum(matched), Cardinality(matched)>>
    IN [score |-> OrZero(result[1]), num_votes |-> result[2]]

Ok(value) == [status |-> "ok", value |-> value]
Raise(exc) == [status |-> "error", value |-> exc]

\* The ids of a list of objects: [obj.id for obj in objects]
IdsOf(objects) == {objects[i].id : i \in DOMAIN objects}

\* get_scores_in_bulk(objects): the content type is that of objects[0]; one
\* result row (object_id, SUM(vote), COUNT(vote)) per object id that has rows.
GetScoresInBulk(rows, objects) ==
    IF Len(objects) = 0 THEN Raise("IndexError")
    ELSE
    LET ctype == objects[1].kind
        matched == {r \in rows : r.content_type = ctype /\ r.object_id \in IdsOf(objects)}
        group(oid) == {r \in matched : r.object_id = oid}
        results == {<<r.object_id, SqlSum(group(r.object_id)),
                      Cardinality(group(r.object_id))>> : r \in matched}
    IN Ok([oid \in {res[1] : res \in results} |->
              LET res == CHOOSE x \in results : x[1] = oid
              IN [score |-> res[2].val, num_votes |-> res[3]]])

\* get_for_user_in_bulk(objects, user): {} for no objects; else the user's
\* votes on the ids, under the content type of objects[0].
GetForUserInBulk(rows, objects, user) ==
    IF Len(objects) > 0
    THEN LET ctype == objects[1].kind
             votes == {r \in rows : /\ r.content_type = ctype
                                    /\ r.object_id \in IdsOf(objects)
                                    /\ r.user = user}
         IN Ok([oid \in {r.object_id : r \in votes} |->
                   CHOOSE r \in votes : r.object_id = oid])
    ELSE Ok(<<>>)

\* ---------------------------------------------------- get_top / get_bottom

\* SQL text is a sequence of pieces: lexemes, and the white space between
\* them.  Python's `+=` appends the pieces of its right-hand side.
Whitespace == {" ", "\n"}
Keywords == <<"SELECT", "FROM", "WHERE", "GROUP BY", "HAVING", "ORDER BY", "LIMIT">>

\* query = """\nSELECT object_id, SUM(vote)\nFROM %s\nWHERE content_type_id = %%s
\* GROUP BY object_id""" % quote_name(db_table)
RankQueryBase ==
    <<"\n", "SELECT", " ", "object_id, SUM(vote)", "\n", "FROM", " ", "votes", "\n",
      "WHERE", " ", "content_type_id = %s", "\n", "GROUP BY", " ", "object_id">>

\* 'HAVING SUM(vote) < 0 ORDER BY SUM(vote) ASC LIMIT %s'
HavingBottom ==
    <<"HAVING", " ", "SUM(vote) < 0", " ", "ORDER BY", " ", "SUM(vote) ASC", " ",
      "LIMIT", " ", "%s">>

\* 'HAVING SUM(vote) > 0 ORDER BY SUM(vote) DESC LIMIT %s'
HavingTop ==
    <<"HAVING", " ", "SUM(vote) > 0", " ", "ORDER BY", " ", "SUM(vote) DESC", " ",
      "LIMIT", " ", "%s">>

\* if reversed: query += ... else: query += ...
RankQuery(reversed) ==
    RankQueryBase \o (IF reversed THEN HavingBottom ELSE HavingTop)

\* The database's lexer: pieces not separated by white space are one lexeme.
RECURSIVE Tokenize(_, _, _)
Tokenize(q, i, cur) ==
    LET flush == IF cur = "" THEN <<>> ELSE <<cur>> IN
    IF i > Len(q) THEN flush
    ELSE IF q[i] \in Whitespace THEN flush \o Tokenize(q, i + 1, "")
    ELSE Tokenize(q, i + 1, cur \o q[i])

Tokens(q) == Tokenize(q, 1, "")

IsKeyword(t) == \E k \in DOMAIN Keywords : Keywords[k] = t
KeywordRank(t) == CHOOSE k \in DOMAIN Keywords : Keywords[k] = t

\* The database's parser: a grouped SELECT is keyword/operand pairs, the
\* clauses in SQL's order, starting SELECT ... FROM ...
IsStatement(toks) ==
    /\ Len(toks) >= 4
    /\ Len(toks) % 2 = 0
    /\ \A i \in DOMAIN toks : (i % 2 = 1) <=> IsKeyword(toks[i])
    /\ toks[1] = "SELECT"
    /\ toks[3] = "FROM"
    /\ \A i, j \in DOMAIN toks :
          (i % 2 = 1 /\ j % 2 = 1 /\ i < j) => KeywordRank(toks[i]) < KeywordRank(toks[j])

HasClause(toks, kw) == \E i \in DOMAIN toks : toks[i] = kw
Clause(toks, kw) == toks[(CHOOSE i \in DOMAIN toks : toks[i] = kw) + 1]

\* The grouped rows (object_id, SUM(vote)) of one content type.
GroupSums(rows, ctype_id) ==
    {<<r.object_id, SumOf({x \in rows : /\ x.content_type = ctype_id
                                         /\ x.object_id = r.object_id})>> :
        r \in {x \in rows : x.content_type = ctype_id}}

Min(a, b) == IF a < b THEN a ELSE b

\* Every order the database may return the groups in: sorted by the sum,
\* ties in any order; then cut to the limit.
Ranked(groups, descending, limit) ==
    LET n == Cardinality(groups)
        orders == {s \in [1..n -> groups] :
                     /\ \A i, j \in 1..n : i # j => s[i] # s[j]
                     /\ \A i, j \in 1..n : i < j =>
                           IF descending THEN s[i][2] >= s[j][2]
                           ELSE s[i][2] <= s[j][2]}
    IN {SubSeq(s, 1, Min(limit, n)) : s \in orders}

\* cursor.execute(query, [ctype.id, limit]); cursor.fetchall(): the possible
\* result lists, or none when the statement does not parse.
ExecuteRank(rows, query, ctype_id, limit) ==
    LET toks == Tokens(query) IN
    IF ~IsStatement(toks) THEN {Raise("ProgrammingError")}
    ELSE
    LET grouped == GroupSums(rows, ctype_id)
        having == IF ~HasClause(toks, "HAVING") THEN grouped
                  ELSE IF Clause(toks, "HAVING") = "SUM(vote) > 0"
                  THEN {g \in grouped : g[2] > 0}
                  ELSE {g \in grouped : g[2] < 0}
        descending == HasClause(toks, "ORDER BY")
                      /\ Clause(toks, "ORDER BY") = "SUM(vote) DESC"
        n == IF HasClause(toks, "LIMIT") THEN limit ELSE Cardinality(having)
    IN {Ok(res) : res \in Ranked(having, descending, n)}

\* Model.objects.in_bulk(ids): the ids that still resolve to an object.
InBulk(present, ids) == present \cap ids

\* for id, score in results: if id in objects: yield objects[id], score
Yielded(results, objects) ==
    LET Resolves(pair) == pair[1] \in objects IN SelectSeq(results, Resolves)

\* get_top(Model, limit, reversed), iterated to its end: the possible outcomes.
\* `present` is the set of ids of Model's objects that exist.
GetTop(rows, kind, limit, reversed, present) ==
    {IF res.status = "error" THEN res
     ELSE Ok(Yielded(res.value,
                     InBulk(present, {res.value[i][1] : i \in DOMAIN res.value}))) :
        res \in ExecuteRank(rows, RankQuery(reversed), kind, limit)}

\* get_bottom(Model, limit): return self.get_top(Model, limit, True)
GetBottom(rows, kind, limit, present) == GetTop(rows, kind, limit, TRUE, present)

\* ------------------------------------------------------------ query calls

\* The row key's primary key in the stores the queries start from.
KeyId(user, kind, oid) ==
    ((user - 1) * Cardinality(Kinds) + (kind - 1)) * MaxObjId + oid

Keys == Users \X Kinds \X ObjIds

\* Every table of at most MaxRows rows that record_vote can leave behind: one
\* row per key at most, each with value +1 or -1.
ValidStores ==
    UNION {{{Vote(KeyId(k[1], k[2], k[3]), k[1], k[2], k[3], f[k]) : k \in ks} :
               f \in [ks -> {1, -1}]} :
              ks \in {x \in SUBSET Keys : Cardinality(x) <= MaxRows}}

\* The target lists handed to the bulk operations.
ObjLists == UNION {[1..n -> Objects] : n \in 0..MaxLen}

QInit ==
    /\ store \in ValidStores
    /\ pc = [p \in Procs |-> "idle"]
    /\ req = [p \in Procs |-> NoReq]
    /\ v = [p \in Procs |-> NoVote]
    /\ last = NoOp

\* A query's answer.
Answered(op, args, ret) ==
    /\ Observed
    /\ last' = [op |-> op, args |-> args, ret |-> ret]
    /\ UNCHANGED <<store, pc, req, v>>

GetScoreCall(obj) ==
    Answered("get_score", [obj |-> obj], GetScore(store, obj))

GetScoresInBulkCall(objects) ==
    Answered("get_scores_in_bulk", [objects |-> objects],
             GetScoresInBulk(store, objects))

GetForUserInBulkCall(objects, user) ==
    Answered("get_for_user_in_bulk", [objects |-> objects, user |-> user],
             GetForUserInBulk(store, objects, user))

GetTopCall(kind, limit, reversed, present) ==
    \E ret \in GetTop(store, kind, limit, reversed, present) :
        Answered("get_top",
                 [kind |-> kind, limit |-> limit, reversed |-> reversed,
                  present |-> present], ret)

GetBottomCall(kind, limit, present) ==
    \E ret \in GetBottom(store, kind, limit, present) :
        Answered("get_bottom",
                 [kind |-> kind, limit |-> limit, reversed |-> TRUE,
                  present |-> present], ret)

ScoreNext ==
    \/ \E obj \in Objects : GetScoreCall(obj)
    \/ \E objects \in ObjLists : GetScoresInBulkCall(objects)
    \/ TakeAnswer

ScoreSpec == QInit /\ [][ScoreNext]_vars

QueryNext ==
    \/ \E obj \in Objects : GetScoreCall(obj)
    \/ \E objects \in ObjLists : GetScoresInBulkCall(objects)
    \/ \E objects \in ObjLists, user \in Users : GetForUserInBulkCall(objects, user)
    \/ \E kind \in Kinds, limit \in 1..MaxLimit, reversed \in BOOLEAN,
          present \in SUBSET ObjIds : GetTopCall(kind, limit, reversed, present)
    \/ \E kind \in Kinds, limit \in 1..MaxLimit, present \in SUBSET ObjIds :
          GetBottomCall(kind, limit, present)
    \/ TakeAnswer

QuerySpec == QInit /\ [][QueryNext]_vars

\* ------------------------------------------------------------------ claims

RecordsOf(user, obj) == GetRows(store, user, obj)

\* C1: in every reachable state, under any interleaving of the lookup and
\* write steps of concurrent record_vote calls, the store holds at most one
\* Vote row for each (user, content type, object id).
C1_AtMostOneVotePerKey == \A r1, r2 \in store : SameKey(r1, r2) => r1 = r2

\* Two calls raced to create the same row and the constraint turned the
\* second INSERT away, leaving the one row.
C1_Witness ==
    /\ last.op = "record_vote"
    /\ last.ret = "IntegrityError"
    /\ Cardinality(RecordsOf(last.args.user, last.args.obj)) = 1

\* C2: when record_vote calls with values in {+1, 0, -1} run one after
\* another, each call returns normally and leaves exactly one record with its
\* value when the value is +1 or -1, and no record when the value is 0.
C2_LastSubmittedValueStands ==
    (last.op = "record_vote" /\ last.args.vote \in {1, 0, -1}) =>
        /\ last.ret = "ok"
        /\ LET rows == RecordsOf(last.args.user, last.args.obj) IN
           IF last.args.vote = 0 THEN rows = {}
           ELSE Cardinality(rows) = 1 /\ \A r \in rows : r.vote = last.args.vote

\* A user whose record was created first, before another user's, has just
\* voted again on it, and it now carries -1.
C2_Witness ==
    /\ last.op = "record_vote"
    /\ last.ret = "ok"
    /\ last.args.vote = -1
    /\ \E r \in RecordsOf(last.args.user, last.args.obj) : r.id = 1 /\ r.vote = -1
    /\ \E r \in store : r.id = 2

\* C3: concurrent +1/-1 calls of one user on one target all return normally
\* (no duplicate-key failure), and each call that returns leaves exactly one
\* record carrying the value it committed.
C3_RaceNeverFails ==
    last.op = "record_vote" =>
        /\ last.ret = "ok"
        /\ Cardinality(RecordsOf(last.args.user, last.args.obj)) = 1
        /\ \A r \in RecordsOf(last.args.user, last.args.obj) : r.vote = last.args.vote

\* C4: a record_vote call whose value is outside {+1, 0, -1} fails with the
\* invalid-vote error and leaves the whole store as it was, whatever the store
\* holds.
C4_InvalidVoteRejected ==
    [][\A vote \in VoteInputs \ {1, 0, -1} :
          \A p \in Procs, user \in Users, obj \in Targets :
              Call(p, user, obj, vote) =>
                  /\ store' = store
                      /\ last'.op = "record_vote"
                  /\ last'.ret = "ValueError"
                  /\ last'.args = [user |-> user, obj |-> obj, vote |-> vote]]_vars

\* An invalid vote was rejected while a record for the same user and target
\* exists.
C4_Witness ==
    /\ last.op = "record_vote"
    /\ last.ret = "ValueError"
    /\ last.args.vote \notin {1, 0, -1}
    /\ RecordsOf(last.args.user, last.args.obj) # {}

\* C5: every persisted Vote row has value +1 or -1, after any calls with
\* valid or invalid values.
C5_NoZeroVoteStored == \A r \in store : r.vote \in {1, -1}

\* A caller about to retract holds an instance fetched with value +1 whose
\* row has since been overwritten with -1 by another call.
C5_Witness ==
    \E p \in Procs : \E r \in store :
        /\ pc[p] = "found"
        /\ req[p].vote = 0
        /\ r.id = v[p].id
        /\ v[p].vote = 1
        /\ r.vote = -1

\* The votes cast on a target, counted from the table.
VotesOn(obj) == {r \in store : r.content_type = obj.kind /\ r.object_id = obj.id}

MixedKinds(objects) == \E i, j \in DOMAIN objects : objects[i].kind # objects[j].kind

IsBulkCall == last.op \in {"get_scores_in_bulk", "get_for_user_in_bulk"}

\* C6: a bulk operation handed targets of more than one kind is rejected with
\* an error; it returns no mapping.
C6_MixedKindsRejected ==
    (IsBulkCall /\ MixedKinds(last.args.objects)) => last.ret.status = "error"

\* C7: both bulk operations handed no targets return the empty mapping and do
\* not fail.
C7_EmptyInputGivesEmptyMapping ==
    (IsBulkCall /\ last.args.objects = <<>>) =>
        /\ last.ret.status = "ok"
        /\ DOMAIN last.ret.value = {}

\* C8: get_scores_in_bulk of a non-empty list of targets of one kind has a key
\* for an id exactly when the listed target with that id has a vote, and the
\* entry equals get_score of that target: the sum and the number of its
\* votes.  get_score of a target without votes is score 0, num_votes 0.
C8_BulkMatchesSingle ==
    /\ (/\ last.op = "get_scores_in_bulk"
        /\ last.args.objects # <<>>
        /\ ~MixedKinds(last.args.objects)) =>
           /\ last.ret.status = "ok"
           /\ DOMAIN last.ret.value \subseteq IdsOf(last.args.objects)
           /\ \A i \in DOMAIN last.args.objects :
                 LET t == last.args.objects[i] IN
                 /\ (t.id \in DOMAIN last.ret.value) <=> (VotesOn(t) # {})
                 /\ (t.id \in DOMAIN last.ret.value) =>
                       /\ last.ret.value[t.id] = GetScore(store, t)
                       /\ last.ret.value[t.id].score = SumOf(VotesOn(t))
                       /\ last.ret.value[t.id].num_votes = Cardinality(VotesOn(t))
    /\ (last.op = "get_score" /\ VotesOn(last.args.obj) = {}) =>
           last.ret = [score |-> 0, num_votes |-> 0]

\* The bulk score of two listed targets: one whose two votes cancel, one
\* that has no votes and so no key.
C8_Witness ==
    /\ last.op = "get_scores_in_bulk"
    /\ Len(last.args.objects) = 2
    /\ ~MixedKinds(last.args.objects)
    /\ last.ret.status = "ok"
    /\ \E i, j \in DOMAIN last.args.objects :
          /\ Cardinality(VotesOn(last.args.objects[i])) = 2
          /\ last.ret.value[last.args.objects[i].id] = [score |-> 0, num_votes |-> 2]
          /\ last.args.objects[j].id \notin DOMAIN last.ret.value

IsRankCall == last.op \in {"get_top", "get_bottom"}

SumOn(kind, oid) == SumOf(VotesOn(Obj(kind, oid)))

\* An object's sum ranks on the side the call asks for.
Qualifies(sum, reversed) == IF reversed THEN sum < 0 ELSE sum > 0
\* Sum a may stand before sum b in the call's order.
InOrder(a, b, reversed) == IF reversed THEN a <= b ELSE a >= b

\* C9: with every object still existing, get_top yields (object, score) pairs
\* only for objects of the kind whose vote sum is strictly positive, each with
\* its sum, in non-increasing order, at most limit of them, and omits no
\* object that ranks before a yielded one; get_bottom likewise for strictly
\* negative sums in non-decreasing order.
C9_RankingCorrect ==
    (IsRankCall /\ last.args.present = ObjIds) =>
        /\ last.ret.status = "ok"
        /\ LET ys == last.ret.value
               rev == last.args.reversed
               kind == last.args.kind
           IN
           /\ Len(ys) <= last.args.limit
           /\ \A i \in DOMAIN ys :
                 /\ ys[i][1] \in ObjIds
                 /\ ys[i][2] = SumOn(kind, ys[i][1])
                 /\ Qualifies(ys[i][2], rev)
           /\ \A i, j \in DOMAIN ys : i < j => InOrder(ys[i][2], ys[j][2], rev)
           /\ \A oid \in ObjIds \ {ys[i][1] : i \in DOMAIN ys} :
                 \A i \in DOMAIN ys : InOrder(ys[i][2], SumOn(kind, oid), rev)

\* C10: when a ranked id no longer resolves to an object, get_top /
\* get_bottom do not fail and never yield a missing object:
\* what they yield is the ranked rows, cut to limit, without the rows whose
\* id no longer resolves.
C10_MissingObjectsDropped ==
    (/\ IsRankCall
     /\ \E g \in GroupSums(store, last.args.kind) :
           Qualifies(g[2], last.args.reversed) /\ g[1] \notin last.args.present) =>
        /\ last.ret.status = "ok"
        /\ \A i \in DOMAIN last.ret.value : last.ret.value[i][1] \in last.args.present
        /\ \E ranked \in Ranked({g \in GroupSums(store, last.args.kind) :
                                    Qualifies(g[2], last.args.reversed)},
                                ~last.args.reversed, last.args.limit) :
              last.ret.value = Yielded(ranked, last.args.present)

====
